---- MODULE Spec2Model ----
(***************************************************************************)
(* Model of the DICOM top-level parser of src/parse.go: NewParser with its *)
(* meta header parser readHeader, and Parse with its element loop.         *)
(*                                                                         *)
(* The byte source is modelled lazily: each read step draws what the       *)
(* source delivers next (an element, the magic word, or a source error)    *)
(* from a small set.  Offsets are counted in bytes.  The limited reader,   *)
(* readElement, the dataset lookup, the transfer-syntax table and the      *)
(* character-set registry live outside src/ and follow spec.md.            *)
(*                                                                         *)
(* A second part models pkg/dcmtime (ParseDatetime, Datetime.DCM) as the   *)
(* tables of src/pkg/dcmtime/datetime_test.go state it.                    *)
(***************************************************************************)
EXTENDS Integers, Sequences, FiniteSets, TLC

\* ---------------------------------------------------------------- bounds
\* Largest number of elements the source delivers after the group-length
\* element (meta elements plus body elements).
MaxElems == 3
\* Capacity of the frame channel handed to NewParser.
ChanCap == 1
\* Largest number of further Parse calls made on a parser after its first.
MaxParseAgain == 1

\* ------------------------------------------------------ program constants
magicWord == "DICM"
PreambleLen == 128
MagicLen == 4

ErrorMagicWord == "ErrorMagicWord"
ErrorMetaElementGroupLength == "ErrorMetaElementGroupLength"
\* Errors of the limited reader and of the collaborators (spec.md 4.1, 6).
ErrTruncated == "ErrTruncated"
ErrUnresolvableCharset == "ErrUnresolvableCharset"
ErrUnknownTransferSyntax == "ErrUnknownTransferSyntax"
\* Errors of the underlying byte source.
SrcErrors == {"EOF", "EIO"}
SrcOutcomes == {"nil"} \cup SrcErrors

\* ------------------------------------------------------------------ tags
FileMetaInformationGroupLength == "FileMetaInformationGroupLength"
TransferSyntaxUID == "TransferSyntaxUID"
SpecificCharacterSet == "SpecificCharacterSet"
PatientName == "PatientName"
PixelData == "PixelData"

\* Byte orders; NilOrder is Go's nil binary.ByteOrder.
LittleEndian == "LittleEndian"
BigEndian == "BigEndian"
NilOrder == "nil"

\* Value kinds of Element.Value.ValueType().
Strings == "Strings"
Ints == "Ints"
Bytes == "Bytes"
PixelDataInfo == "PixelDataInfo"

\* spec.md 3: the value kind each VR decodes to.
ValueTypeOfVR(vr) ==
  IF vr \in {"UL", "US", "SL", "SS"} THEN Ints
  ELSE IF vr \in {"OB", "OW", "UN"} THEN Bytes
  ELSE Strings

\* spec.md 4.2: bytes of an element header (tag, VR, length) in each mode.
HeaderLen(vr, isImplicit) ==
  IF isImplicit THEN 8
  ELSE IF vr \in {"OB", "OW", "OF", "OD", "OL", "UN", "SQ", "UT", "UC", "UR"} THEN 12
  ELSE 8

\* ---------------------------------------------------------------- inputs
\* An element as it lies in the file: tag, VR, declared value length vl
\* (-1 is the undefined length 0xFFFFFFFF), bytes the value takes on the
\* wire, and the value items (text items in val, integers in ints).
Elem(t, vr, vl, wire, val, ints) ==
  [tag |-> t, vr |-> vr, vl |-> vl, wire |-> wire, val |-> val, ints |-> ints]

TSImplicitLE == "1.2.840.10008.1.2"
TSExplicitLE == "1.2.840.10008.1.2.1"
TSExplicitBE == "1.2.840.10008.1.2.2"
TSUnknown == "9.9"

\* The PixelData input is encapsulated: undefined length, an empty offset
\* table item, one 4-byte fragment item and the sequence delimiter.
ElemKinds ==
  { Elem(TransferSyntaxUID, "UI", 18, 18, <<TSImplicitLE>>, <<>>),
    Elem(TransferSyntaxUID, "UI", 20, 20, <<TSExplicitLE>>, <<>>),
    Elem(TransferSyntaxUID, "UI", 20, 20, <<TSExplicitBE>>, <<>>),
    Elem(TransferSyntaxUID, "UI", 4, 4, <<TSUnknown>>, <<>>),
    Elem(SpecificCharacterSet, "CS", 10, 10, <<"ISO_IR 100">>, <<>>),
    Elem(SpecificCharacterSet, "CS", 10, 10, <<"ISO_IR 192">>, <<>>),
    Elem(SpecificCharacterSet, "CS", 10, 10, <<"ISO_IR 999">>, <<>>),
    Elem(PatientName, "PN", 4, 4, <<"DOE^">>, <<>>),
    Elem(PixelData, "OB", 0 - 1, 28, <<>>, <<>>) }

\* Declared meta group lengths the inputs use: sums of element sizes, and
\* 20, which ends in the middle of an element.
MetaLens == {0, 12, 20, 26, 28, 38}

\* What the source may deliver as the first element after the magic word.
GroupLengthInputs ==
  { Elem(FileMetaInformationGroupLength, "UL", 4, 4, <<>>, <<n>>) : n \in MetaLens }
    \cup { Elem(FileMetaInformationGroupLength, "US", 2, 2, <<>>, <<n>>) : n \in {0, 12} }
    \cup { Elem(FileMetaInformationGroupLength, "SL", 4, 4, <<>>, <<0 - 4>>),
           Elem(FileMetaInformationGroupLength, "SS", 2, 2, <<>>, <<0 - 4>>),
           Elem(FileMetaInformationGroupLength, "UL", 0, 0, <<>>, <<>>),
           Elem(FileMetaInformationGroupLength, "UI", 4, 4, <<"1.2">>, <<>>),
           Elem(TransferSyntaxUID, "UL", 4, 4, <<>>, <<12>>),
           Elem(PatientName, "PN", 4, 4, <<"DOE^">>, <<>>) }

\* bytesToRead values handed to NewParser.
BytesToReadSet == {12, 30, 40, 48, 52, 80, 100, 130, 154, 156, 174, 180, 182, 184, 192, 196, 200}

\* ---------------------------------------------------------------- dcmtime
\* pkg/dcmtime: ParseDatetime and Datetime.DCM, as the tables of
\* datetime_test.go state them.  A DT string is a sequence of characters.
ErrParseDT == "ErrParseDT"

DigitChars == <<"0", "1", "2", "3", "4", "5", "6", "7", "8", "9">>
Digits == {DigitChars[i] : i \in 1..10}
DigitVal(ch) == (CHOOSE i \in 1..10 : DigitChars[i] = ch) - 1

\* Decimal value of a sequence of digits.
RECURSIVE NumOf(_)
NumOf(s) ==
  IF s = <<>> THEN 0
  ELSE NumOf(SubSeq(s, 1, Len(s) - 1)) * 10 + DigitVal(s[Len(s)])

\* n as w decimal digits with leading zeros.
RECURSIVE Pad(_, _)
Pad(n, w) ==
  IF w = 0 THEN <<>> ELSE Pad(n \div 10, w - 1) \o <<DigitChars[(n % 10) + 1]>>

RECURSIVE Pow10(_)
Pow10(n) == IF n = 0 THEN 1 ELSE 10 * Pow10(n - 1)

\* Number of digits s starts with.
RECURSIVE LeadingDigits(_)
LeadingDigits(s) ==
  IF s = <<>> \/ Head(s) \notin Digits THEN 0 ELSE 1 + LeadingDigits(Tail(s))

\* dcmtime.PrecisionLevel, coarsest first.
PrecisionLevels ==
  <<"PrecisionYear", "PrecisionMonth", "PrecisionDay", "PrecisionHours",
    "PrecisionMinutes", "PrecisionSeconds", "PrecisionMS1", "PrecisionMS2",
    "PrecisionMS3", "PrecisionMS4", "PrecisionMS5", "PrecisionFull">>
PrecisionRank(p) == CHOOSE i \in 1..Len(PrecisionLevels) : PrecisionLevels[i] = p

\* dcmtime.Datetime: Time (its fields, the zone as seconds east of UTC),
\* Precision and NoOffset.
Datetime(y, mo, d, h, mi, sec, ns, off, prec, noOff) ==
  [year |-> y, month |-> mo, day |-> d, hour |-> h, minute |-> mi,
   second |-> sec, nanos |-> ns, offset |-> off, Precision |-> prec,
   NoOffset |-> noOff]

ZeroDatetime == Datetime(0, 0, 0, 0, 0, 0, 0, 0, "none", FALSE)
NoResult == [err |-> "none", dt |-> ZeroDatetime]

\* Mutant: the pattern is not anchored at the end of the string.
AtEndAnywhere(rest) == TRUE

\* The pattern is anchored: nothing may follow the value.
AtEnd(rest) == rest = <<>>

\* Mutant: the fractional digits are taken as a count of microseconds.
ScaleFractionAsMicros(v, m) == v * 1000

\* m fractional digits of value v as nanoseconds.
ScaleFraction(v, m) == v * Pow10(9 - m)

\* ParseDatetime(s): YYYY[MM[DD[HH[MM[SS[.F{1,6}]]]]]][(+|-)HHMM], the whole
\* string; ErrParseDT otherwise.
ParseDatetime(s) ==
  LET n == LeadingDigits(s)
      r1 == SubSeq(s, n + 1, Len(s))
      hasFrac == r1 # <<>> /\ Head(r1) = "."
      m == IF hasFrac THEN LeadingDigits(Tail(r1)) ELSE 0
      r2 == IF hasFrac THEN SubSeq(r1, m + 2, Len(r1)) ELSE r1
      hasOff == r2 # <<>> /\ Head(r2) \in {"+", "-"}
      r3 == IF hasOff /\ LeadingDigits(Tail(r2)) >= 4
            THEN SubSeq(r2, 6, Len(r2)) ELSE r2
      ok == /\ n \in {4, 6, 8, 10, 12, 14}
            /\ hasFrac => (n = 14 /\ m \in 1..6)
            /\ hasOff => LeadingDigits(Tail(r2)) >= 4
            /\ AtEnd(r3)
      comp(i, min) ==
        IF n >= 4 + 2 * i THEN NumOf(SubSeq(s, 3 + 2 * i, 4 + 2 * i)) ELSE min
      sign == IF hasOff /\ Head(r2) = "-" THEN 0 - 1 ELSE 1
  IN
  IF ~ok THEN [err |-> ErrParseDT, dt |-> ZeroDatetime]
  ELSE [err |-> "nil",
        dt |-> Datetime(
          NumOf(SubSeq(s, 1, 4)), comp(1, 1), comp(2, 1), comp(3, 0),
          comp(4, 0), comp(5, 0),
          IF hasFrac THEN ScaleFraction(NumOf(SubSeq(r1, 2, m + 1)), m) ELSE 0,
          IF hasOff
          THEN sign * (NumOf(SubSeq(r2, 2, 3)) * 3600 + NumOf(SubSeq(r2, 4, 5)) * 60)
          ELSE 0,
          IF hasFrac THEN PrecisionLevels[6 + m]
          ELSE PrecisionLevels[((n - 4) \div 2) + 1],
          ~hasOff)]

\* Mutant: the fractional second is rounded to k digits.
FractionDigitsRounded(ns, k) ==
  Pad((ns + 5 * Pow10(8 - k)) \div Pow10(9 - k), k)

\* The first k of the six digits of the microseconds.
FractionDigits(ns, k) == SubSeq(Pad(ns \div 1000, 6), 1, k)

\* Datetime.DCM(): the components down to Precision, then the offset unless
\* NoOffset.
DCM(d) ==
  LET r == PrecisionRank(d.Precision)
      part(rank, v) == IF r >= rank THEN Pad(v, 2) ELSE <<>>
      abs == IF d.offset < 0 THEN 0 - d.offset ELSE d.offset
  IN
  Pad(d.year, 4) \o part(2, d.month) \o part(3, d.day) \o part(4, d.hour)
    \o part(5, d.minute) \o part(6, d.second)
    \o (IF r >= 7 THEN <<".">> \o FractionDigits(d.nanos, r - 6) ELSE <<>>)
    \o (IF d.NoOffset THEN <<>>
        ELSE <<IF d.offset < 0 THEN "-" ELSE "+">>
               \o Pad(abs \div 3600, 2) \o Pad((abs % 3600) \div 60, 2))

\* The DT strings handed to ParseDatetime: the value of the tests,
\* 10100203040506.456789+0102, cut after `level` two-digit components, with
\* `frac` fractional digits (7: one too many, 8: the '.' alone), one of the
\* offsets, possibly a defect in the digits, possibly in other text.
DTDigits == <<"1", "0", "1", "0", "0", "2", "0", "3", "0", "4", "0", "5", "0", "6">>
DTFraction == <<"4", "5", "6", "7", "8", "9", "1">>
SomeText == <<"S", "o", "m", "e", "T", "e", "x", "t">>
NotADT == <<"n", "o", "t", "a", "D", "T">>

DTOffsets == {"none", "+0102", "-0102", "+01023", "+010", "+01", "+1",
              "++0102", "&0102"}
DTOffsetChars(o) ==
  CASE o = "none" -> <<>>
    [] o = "+0102" -> <<"+", "0", "1", "0", "2">>
    [] o = "-0102" -> <<"-", "0", "1", "0", "2">>
    [] o = "+01023" -> <<"+", "0", "1", "0", "2", "3">>
    [] o = "+010" -> <<"+", "0", "1", "0">>
    [] o = "+01" -> <<"+", "0", "1">>
    [] o = "+1" -> <<"+", "1">>
    [] o = "++0102" -> <<"+", "+", "0", "1", "0", "2">>
    [] o = "&0102" -> <<"&", "0", "1", "0", "2">>

DTDefects == {"none", "shortYear", "shortLast", "extraDigit"}
DTWraps == {"none", "head", "headLineBreak", "headWhiteSpace", "tail",
            "tailLineBreak", "tailWhiteSpace", "textOnly"}

NoCase == [level |-> 0, defect |-> "none", frac |-> 0, off |-> "none", wrap |-> "none"]

\* A fraction without a defect in the digits follows the seconds; a short
\* year stands alone; a short last component needs a component.
DTCases ==
  { c \in [level : 0..5, defect : DTDefects, frac : 0..8, off : DTOffsets,
           wrap : DTWraps] :
      /\ (c.defect = "none" /\ c.frac # 0) => c.level = 5
      /\ c.defect = "shortYear" => c.level = 0
      /\ c.defect = "shortLast" => c.level >= 1 }

BuildDT(c) ==
  LET digits ==
        CASE c.defect = "none" -> SubSeq(DTDigits, 1, 4 + 2 * c.level)
          [] c.defect = "shortYear" -> SubSeq(DTDigits, 1, 3)
          [] c.defect = "shortLast" ->
               SubSeq(DTDigits, 1, 2 + 2 * c.level) \o <<DTDigits[4 + 2 * c.level]>>
          [] c.defect = "extraDigit" -> SubSeq(DTDigits, 1, 4 + 2 * c.level) \o <<"1">>
      fraction ==
        IF c.frac = 0 THEN <<>>
        ELSE IF c.frac = 8 THEN <<".">>
        ELSE <<".">> \o SubSeq(DTFraction, 1, c.frac)
      v == digits \o fraction \o DTOffsetChars(c.off)
  IN
  CASE c.wrap = "none" -> v
    [] c.wrap = "head" -> v \o SomeText
    [] c.wrap = "headLineBreak" -> v \o <<"\n">> \o SomeText
    [] c.wrap = "headWhiteSpace" -> v \o <<" ">> \o SomeText
    [] c.wrap = "tail" -> SomeText \o v
    [] c.wrap = "tailLineBreak" -> SomeText \o <<"\n">> \o v
    [] c.wrap = "tailWhiteSpace" -> SomeText \o <<" ">> \o v
    [] c.wrap = "textOnly" -> NotADT

\* The Datetime values DCM() is called on: the time of the tests with its
\* three nanosecond values and one more, at every precision.
DatetimeInputs ==
  { Datetime(1010, 2, 3, 4, 5, 6, ns, off, PrecisionLevels[r], noOff) :
      ns \in {456789000, 456789, 456789999, 999999999},
      off \in {0 - 3720, 3720, 0},
      r \in 1..Len(PrecisionLevels),
      noOff \in BOOLEAN }

VARIABLES
  pc,            \* position of the caller / parser
  opts,          \* p.opts.assumeNoHeaderAndOffset
  frameChannel,  \* "nil" or "chan": p.frameChannel
  chanBuf,       \* frames waiting in the channel
  chanCloses,    \* number of close(p.frameChannel) executed
  received,      \* frames the consumer has taken
  chanClosed,    \* the channel has been closed (by the parser or the consumer)
  pending,       \* <<elem>> while readElement is sending elem's frame
  bo, implicit,  \* reader: transfer syntax
  cs,            \* reader: active character-set decoder
  limit,         \* reader: narrowest active limit (absolute offset)
  bytesRead,     \* reader: offset of the next byte
  limitStack,    \* reader: enclosing limits
  metaElems,     \* readHeader's local metaElems
  dataset,       \* p.dataset.Elements
  retErr,        \* error returned by NewParser / Parse
  retDataset,    \* dataset returned by Parse
  srcErr,        \* error the byte source raised, "nil" if none
  nRead,         \* elements delivered by the source so far
  hist,          \* bookkeeping of calls made on the reader
  dtPc,          \* dcmtime: position of the caller of ParseDatetime / DCM
  dtCase,        \* dcmtime: how the DT string handed to ParseDatetime is built
  dtValue,       \* dcmtime: the DT string, a sequence of characters
  dtParsed,      \* dcmtime: what ParseDatetime returned
  dtTime,        \* dcmtime: the Datetime value DCM() is called on
  dtDCM          \* dcmtime: the string DCM() returned

vars == <<pc, opts, frameChannel, chanBuf, chanCloses, received, chanClosed,
          pending, bo, implicit,
          cs, limit, bytesRead, limitStack, metaElems, dataset, retErr,
          retDataset, srcErr, nRead, hist, dtPc, dtCase, dtValue, dtParsed,
          dtTime, dtDCM>>

\* Bookkeeping fields (not program state): counts of the calls made on the
\* reader, the declared meta length with the offsets where the meta group
\* started and ended, the number of elements in the dataset when Parse was
\* called, the 4 bytes read as the magic word, the cause of an abort, where
\* a failure happened (fail), what the returned error says about it
\* (errInfo), the elements of the file Parse has read (rawBody), the
\* bytesToRead NewParser was given, and whether the element Parse read last
\* reached past the limit (straddled), and the number of Parse calls after
\* the first (parseAgain).
NoInfo == [off |-> 0 - 1, tag |-> "none"]
Info(off, tag) == [off |-> off, tag |-> tag]

Hist0 == [pushes |-> 0, pops |-> 0, undrainedPops |-> 0, elemReads |-> 0,
          tsSets |-> 0, csSets |-> 0, metaLen |-> 0, metaStart |-> 0,
          metaEnd |-> 0, nMeta |-> 0, magic |-> "none", abort |-> "none",
          fail |-> NoInfo, errInfo |-> NoInfo, rawBody |-> <<>>,
          bytesToRead |-> 0, straddled |-> FALSE, parseAgain |-> 0]

\* ------------------------------------------------------- limited reader
\* spec.md 4.1.  The limit is kept as an absolute offset.
IsLimitExhausted == bytesRead >= limit

\* PushLimit(n) at offset pos fails when the sub-scope would reach past the
\* enclosing limit.
PushLimitErr(pos, n) == IF pos + n > limit THEN ErrTruncated ELSE "nil"

\* PopLimit: the enclosing limit becomes the narrowest one again.
PopLimit ==
  /\ limit' = limitStack[Len(limitStack)]
  /\ limitStack' = SubSeq(limitStack, 1, Len(limitStack) - 1)

\* A read of n bytes: a source error, a read crossing the narrowest limit,
\* or success.  src is what the byte source answers.
ReadErr(n, src) ==
  IF src # "nil" THEN src
  ELSE IF bytesRead + n > limit THEN ErrTruncated
  ELSE "nil"

\* --------------------------------------------------------- collaborators
\* Tag dictionary: canonical VR of a tag (used in implicit-VR mode).
DictVR(t) ==
  IF t = FileMetaInformationGroupLength THEN "UL"
  ELSE IF t = TransferSyntaxUID THEN "UI"
  ELSE IF t = SpecificCharacterSet THEN "CS"
  ELSE IF t = PatientName THEN "PN"
  ELSE IF t = PixelData THEN "OB"
  ELSE "UN"

\* VR readElement gives an element when the reader is in VR mode isImplicit.
VRIn(e, isImplicit) == IF isImplicit THEN DictVR(e.tag) ELSE e.vr

\* Bytes the element takes in that mode.
SizeIn(e, isImplicit) == HeaderLen(VRIn(e, isImplicit), isImplicit) + e.wire

\* The element readElement returns at offset off of a reader with byte
\* order order, VR mode isImplicit and character-set decoder decoder.
DecodeIn(e, order, isImplicit, decoder, off) ==
  [tag |-> e.tag, vr |-> VRIn(e, isImplicit), vl |-> e.vl, val |-> e.val,
   ints |-> e.ints, bo |-> order, implicit |-> isImplicit, cs |-> decoder,
   off |-> off, size |-> SizeIn(e, isImplicit)]

\* VR readElement gives an element in the reader's current mode.
VROf(e) == VRIn(e, implicit)

\* Bytes the element takes in the reader's current mode.
ElementSize(e) == SizeIn(e, implicit)

\* The element readElement returns: the file's element as decoded under the
\* reader's byte order, VR mode and character-set decoder, with the offset
\* of its first byte.
Decode(e) == DecodeIn(e, bo, implicit, cs, bytesRead)

ValueType(elem) ==
  IF elem.tag = PixelData THEN PixelDataInfo ELSE ValueTypeOfVR(elem.vr)

\* readElement(r, d, fc) without its frame hand-off: [err, elem].
readElement(e, src) ==
  LET err == ReadErr(ElementSize(e), src) IN
  [err |-> err, elem |-> Decode(e)]

\* Does reading e hand a frame to the channel?
SendsFrame(e, fc) == e.tag = PixelData /\ fc # "nil"

\* Dataset.FindElementByTag: index of the first element with the tag, 0 if none.
FindElementByTag(ds, t) ==
  IF \E i \in 1..Len(ds) : ds[i].tag = t
  THEN CHOOSE i \in 1..Len(ds) : ds[i].tag = t /\ \A j \in 1..(i - 1) : ds[j].tag # t
  ELSE 0

\* uid.ParseTransferSyntaxUID: spec.md 4.7 table; on an unknown UID the
\* zero values are returned with the error.
ParseTransferSyntaxUID(u) ==
  IF u = TSImplicitLE THEN [bo |-> LittleEndian, implicit |-> TRUE, err |-> "nil"]
  ELSE IF u = TSExplicitLE THEN [bo |-> LittleEndian, implicit |-> FALSE, err |-> "nil"]
  ELSE IF u = TSExplicitBE THEN [bo |-> BigEndian, implicit |-> FALSE, err |-> "nil"]
  ELSE [bo |-> NilOrder, implicit |-> FALSE, err |-> ErrUnknownTransferSyntax]

\* charset.ParseSpecificCharacterSet: the registry knows two names.
ParseSpecificCharacterSet(names) ==
  IF names # <<>> /\ names[1] \in {"ISO_IR 100", "ISO_IR 192"}
  THEN [cs |-> names[1], err |-> "nil"]
  ELSE [cs |-> "default", err |-> ErrUnresolvableCharset]

\* ------------------------------------------------------------------ Init
\* Entry of NewParser: the arguments are chosen, dicomio.NewReader has built
\* the reader (little endian, explicit VR, limit bytesToRead).
Init ==
  /\ pc = "NewParser"
  /\ opts \in BOOLEAN
  /\ frameChannel \in {"nil", "chan"}
  /\ chanBuf = <<>>
  /\ chanCloses = 0
  /\ received = <<>>
  /\ chanClosed = FALSE
  /\ pending = <<>>
  /\ bo = LittleEndian
  /\ implicit = FALSE
  /\ cs = "default"
  /\ limit \in BytesToReadSet
  /\ bytesRead = 0
  /\ limitStack = <<>>
  /\ metaElems = <<>>
  /\ dataset = <<>>
  /\ retErr = "nil"
  /\ retDataset = <<>>
  /\ srcErr = "nil"
  /\ nRead = 0
  /\ hist = [Hist0 EXCEPT !.bytesToRead = limit]
  /\ dtPc = "idle"
  /\ dtCase = NoCase
  /\ dtValue = <<>>
  /\ dtParsed = NoResult
  /\ dtTime = ZeroDatetime
  /\ dtDCM = <<>>

\* Variable groups for UNCHANGED.
chanVars == <<frameChannel, chanBuf, chanCloses, received, chanClosed, pending>>
tsVars == <<bo, implicit>>
limVars == <<limit, limitStack>>
retVars == <<retErr, retDataset>>
dtVars == <<dtPc, dtCase, dtValue, dtParsed, dtTime, dtDCM>>
parserVars == <<pc, opts, chanVars, tsVars, cs, limVars, bytesRead, metaElems,
                dataset, retVars, srcErr, nRead, hist>>

\* What an error says about the place of the failure.  The two errors of
\* parse.go 22-25 are package-level values built by errors.New: they hold a
\* fixed text.  An error of the limited reader or of readElement names the
\* offset (spec.md 7).  charset.ParseSpecificCharacterSet (parse.go 162) is
\* handed the names only, its error knows neither offset nor tag.
SentinelErrInfo == NoInfo
ReaderErrInfo(off) == Info(off, "none")
CharsetErrInfo == NoInfo

\* NewParser returns (nil, err).
NewParserFails(err) ==
  /\ pc' = "NewParserErr"
  /\ retErr' = err
  /\ retDataset' = <<>>

\* ------------------------------------------------------------- NewParser
\* Mutant: readHeader is called whatever the option says.
SkipsHeaderNever(o) == FALSE

\* parse.go 60: readHeader is skipped with assumeNoHeaderAndOffset.
SkipsHeader(o) == o

\* parse.go 50-67: options applied; with assumeNoHeaderAndOffset readHeader
\* is not called and the parser is returned with an empty dataset.
NewParserEnter ==
  /\ pc = "NewParser"
  /\ pc' = IF SkipsHeader(opts) THEN "Ready" ELSE "Skip"
  /\ UNCHANGED <<dtVars, opts, chanVars, tsVars, cs, limVars, bytesRead, metaElems,
                 dataset, retVars, srcErr, nRead, hist>>

\* parse.go 89-93: p.reader.Skip(128).
ReadHeaderSkip ==
  /\ pc = "Skip"
  /\ \E src \in SrcOutcomes :
       LET err == ReadErr(PreambleLen, src) IN
       /\ srcErr' = src
       /\ IF err # "nil"
          THEN /\ NewParserFails(err)
               /\ hist' = [hist EXCEPT !.fail = Info(bytesRead, "none"),
                                       !.errInfo = ReaderErrInfo(bytesRead)]
               /\ UNCHANGED bytesRead
          ELSE /\ pc' = "Magic"
               /\ bytesRead' = bytesRead + PreambleLen
               /\ UNCHANGED <<retVars, hist>>
  /\ UNCHANGED <<dtVars, opts, chanVars, tsVars, cs, limVars, metaElems, dataset, nRead>>

\* Mutant: the string read is not compared with the magic word.
MagicOkNoCompare(s, err) == err = "nil"

\* parse.go 96: the magic word is accepted.
MagicOk(s, err) == err = "nil" /\ s = magicWord

\* parse.go 96-98: p.reader.ReadString(4) and the magic word check.
ReadHeaderMagic ==
  /\ pc = "Magic"
  /\ \E s \in {magicWord, "DICX"}, src \in SrcOutcomes :
       LET err == ReadErr(MagicLen, src) IN
       /\ srcErr' = src
       /\ hist' = [hist EXCEPT !.magic = IF err = "nil" THEN s ELSE "none",
                               !.fail = IF MagicOk(s, err) THEN @
                                        ELSE Info(bytesRead, "none"),
                               !.errInfo = IF MagicOk(s, err) THEN @
                                           ELSE SentinelErrInfo]
       /\ IF ~MagicOk(s, err)
          THEN NewParserFails(ErrorMagicWord) /\ UNCHANGED bytesRead
          ELSE /\ pc' = "GroupLength"
               /\ bytesRead' = bytesRead + MagicLen
               /\ UNCHANGED retVars
  /\ UNCHANGED <<dtVars, opts, chanVars, tsVars, cs, limVars, metaElems, dataset, nRead>>

\* parse.go 107: the first element is taken as the meta group length.
IsMetaGroupLength(elem) ==
  elem.tag = FileMetaInformationGroupLength /\ ValueType(elem) = Ints

\* parse.go 101-120: the group-length element, metaLen and PushLimit.
ReadHeaderGroupLength ==
  /\ pc = "GroupLength"
  /\ \E e \in GroupLengthInputs, src \in SrcOutcomes :
       LET res == readElement(e, src)
           pos == bytesRead + ElementSize(e)
       IN
       /\ srcErr' = src
       /\ IF res.err # "nil"
          THEN /\ NewParserFails(res.err)
               /\ hist' = [hist EXCEPT !.elemReads = @ + 1,
                                       !.fail = Info(bytesRead, "none"),
                                       !.errInfo = ReaderErrInfo(bytesRead)]
               /\ UNCHANGED <<bytesRead, limVars, metaElems>>
          ELSE IF ~IsMetaGroupLength(res.elem)
          THEN /\ NewParserFails(ErrorMetaElementGroupLength)
               /\ hist' = [hist EXCEPT !.elemReads = @ + 1,
                                       !.fail = Info(bytesRead, res.elem.tag),
                                       !.errInfo = SentinelErrInfo]
               /\ bytesRead' = pos
               /\ UNCHANGED <<limVars, metaElems>>
          ELSE IF res.elem.ints = <<>>
          THEN \* parse.go 111: index 0 of an empty []int
               /\ pc' = "NewParserPanic"
               /\ hist' = [hist EXCEPT !.elemReads = @ + 1, !.abort = "index"]
               /\ bytesRead' = pos
               /\ UNCHANGED <<limVars, metaElems, retVars>>
          ELSE LET metaLen == res.elem.ints[1] IN
               /\ bytesRead' = pos
               /\ IF PushLimitErr(pos, metaLen) # "nil"
                  THEN /\ NewParserFails(PushLimitErr(pos, metaLen))
                       /\ hist' = [hist EXCEPT !.elemReads = @ + 1,
                                               !.fail = Info(pos, "none"),
                                               !.errInfo = ReaderErrInfo(pos)]
                       /\ UNCHANGED <<limVars, metaElems>>
                  ELSE /\ pc' = "MetaLoop"
                       /\ metaElems' = <<res.elem>>
                       /\ limitStack' = Append(limitStack, limit)
                       /\ limit' = pos + metaLen
                       /\ hist' = [hist EXCEPT !.elemReads = @ + 1,
                                               !.pushes = @ + 1,
                                               !.metaLen = metaLen,
                                               !.metaStart = pos]
                       /\ UNCHANGED retVars
  /\ UNCHANGED <<dtVars, opts, chanVars, tsVars, cs, dataset, nRead>>

\* The input is finite: once the source has delivered MaxElems elements it
\* has come to its end and answers EOF.
SourceDelivers(src) == nRead >= MaxElems => src = "EOF"

\* Mutant: no PopLimit is deferred.
DeferredPopLimitMissing == UNCHANGED limVars

\* parse.go 120: `defer p.reader.PopLimit()` runs on every return that
\* follows it.
DeferredPopLimit == PopLimit

\* parse.go 121-131: one round of the meta element loop; on a failed read
\* the deferred PopLimit runs and the error is returned.
ReadHeaderElement ==
  /\ pc = "MetaLoop"
  /\ ~IsLimitExhausted
  /\ \E e \in ElemKinds, src \in SrcOutcomes :
       LET res == readElement(e, src) IN
       /\ SourceDelivers(src)
       /\ srcErr' = src
       /\ nRead' = IF src = "nil" THEN nRead + 1 ELSE nRead
       /\ IF res.err # "nil"
          THEN /\ NewParserFails(res.err)
               /\ DeferredPopLimit
               /\ metaElems' = <<>>
               /\ hist' = [hist EXCEPT !.elemReads = @ + 1, !.pops = @ + 1,
                                       !.undrainedPops = @ + 1,
                                       !.fail = Info(bytesRead, "none"),
                                       !.errInfo = ReaderErrInfo(bytesRead)]
               /\ UNCHANGED bytesRead
          ELSE /\ metaElems' = Append(metaElems, res.elem)
               /\ bytesRead' = bytesRead + ElementSize(e)
               /\ hist' = [hist EXCEPT !.elemReads = @ + 1]
               /\ UNCHANGED <<pc, limVars, retVars>>
  /\ UNCHANGED <<dtVars, opts, chanVars, tsVars, cs, dataset>>

\* parse.go 121, 132, 120 and 66: the limit is exhausted, readHeader returns
\* metaElems, the deferred PopLimit runs and NewParser stores the dataset.
ReadHeaderDone ==
  /\ pc = "MetaLoop"
  /\ IsLimitExhausted
  /\ DeferredPopLimit
  /\ dataset' = metaElems
  /\ metaElems' = <<>>
  /\ pc' = "Ready"
  /\ hist' = [hist EXCEPT !.pops = @ + 1, !.metaEnd = bytesRead,
                          !.undrainedPops = IF bytesRead < limit THEN @ + 1 ELSE @]
  /\ UNCHANGED <<dtVars, opts, chanVars, tsVars, cs, bytesRead, retVars, srcErr, nRead>>

\* MustGetStrings(v)[0] panics unless v holds at least one string.
HasFirstString(elem) == ValueType(elem) = Strings /\ elem.val # <<>>

\* Mutant: only the byte order is installed, the VR mode is left as it was.
TransferSyntaxStepByteOrderOnly(ds, curBo, curImplicit) ==
  LET i == FindElementByTag(ds, TransferSyntaxUID) IN
  IF i = 0
  THEN [set |-> FALSE, bo |-> curBo, implicit |-> curImplicit]
  ELSE [set |-> TRUE, bo |-> ParseTransferSyntaxUID(ds[i].val[1]).bo,
        implicit |-> curImplicit]

\* Mutant: without a TransferSyntaxUID element little endian implicit is
\* installed.
TransferSyntaxStepDefaultImplicit(ds, curBo, curImplicit) ==
  LET i == FindElementByTag(ds, TransferSyntaxUID) IN
  IF i = 0
  THEN [set |-> TRUE, bo |-> LittleEndian, implicit |-> TRUE]
  ELSE LET res == ParseTransferSyntaxUID(ds[i].val[1]) IN
       [set |-> TRUE, bo |-> res.bo, implicit |-> res.implicit]

\* parse.go 137-146: the transfer syntax Parse leaves on the reader.  With a
\* TransferSyntaxUID element, whatever ParseTransferSyntaxUID returned is
\* installed, also when it returned an error; without one nothing is set.
TransferSyntaxStep(ds, curBo, curImplicit) ==
  LET i == FindElementByTag(ds, TransferSyntaxUID) IN
  IF i = 0
  THEN [set |-> FALSE, bo |-> curBo, implicit |-> curImplicit]
  ELSE LET res == ParseTransferSyntaxUID(ds[i].val[1]) IN
       [set |-> TRUE, bo |-> res.bo, implicit |-> res.implicit]

\* parse.go 135-146: Parse is called on the parser NewParser returned.
ParseTransferSyntax ==
  /\ pc = "Ready"
  /\ LET i == FindElementByTag(dataset, TransferSyntaxUID) IN
     IF i # 0 /\ ~HasFirstString(dataset[i])
     THEN /\ pc' = "ParsePanic"
          /\ hist' = [hist EXCEPT !.abort = "mustGetStrings"]
          /\ UNCHANGED tsVars
     ELSE LET ts == TransferSyntaxStep(dataset, bo, implicit) IN
          /\ pc' = "BodyLoop"
          /\ bo' = ts.bo
          /\ implicit' = ts.implicit
          /\ hist' = [hist EXCEPT !.tsSets = IF ts.set THEN @ + 1 ELSE @,
                                  !.nMeta = Len(dataset)]
  /\ UNCHANGED <<dtVars, opts, chanVars, cs, limVars, bytesRead, metaElems, dataset,
                 retVars, srcErr, nRead>>

\* parse.go 152: the dataset returned when readElement fails.
DatasetOnReadError(ds) == <<>>

\* parse.go 165: the dataset returned when the character set does not resolve.
DatasetOnCharsetError(ds) == ds

\* Mutant: an element replaces an earlier element of the same tag.
AppendElementByTag(ds, elem) ==
  IF FindElementByTag(ds, elem.tag) # 0
  THEN [ds EXCEPT ![FindElementByTag(ds, elem.tag)] = elem]
  ELSE Append(ds, elem)

\* parse.go 170: the element joins the dataset.
AppendElement(ds, elem) == Append(ds, elem)

\* Mutant: only the first SpecificCharacterSet element installs a decoder.
CodingSystemFirstOnly(elem, cur) ==
  IF elem.tag = SpecificCharacterSet /\ cur = "default"
  THEN ParseSpecificCharacterSet(elem.val).cs
  ELSE cur

\* parse.go 159-168: the decoder on the reader after a top-level element.
CodingSystemAfter(elem, cur) ==
  IF elem.tag = SpecificCharacterSet
  THEN ParseSpecificCharacterSet(elem.val).cs
  ELSE cur

\* Mutant: Parse hands readElement no channel, as readHeader does.
FrameChannelArgNil(fc) == "nil"

\* parse.go 149: Parse hands readElement the parser's frame channel.
FrameChannelArg(fc) == fc

\* Mutant: an EOF of the source is not taken as a failure.
ReadFailedUnlessEOF(err) == err \notin {"nil", "EOF"}

\* parse.go 150: `if err != nil`.
ReadFailed(err) == err # "nil"

\* The source delivers the element, but it reaches past the narrowest limit.
Straddles(e, src) == src = "nil" /\ bytesRead + ElementSize(e) > limit

\* parse.go 147-172: one round of the element loop.  When the element is
\* PixelData and a channel was given, readElement goes on to send the frame
\* (SendFrame) before it returns the element.
ParseElement ==
  /\ pc = "BodyLoop"
  /\ ~IsLimitExhausted
  /\ \E e \in ElemKinds, src \in SrcOutcomes :
       LET res == readElement(e, src) IN
       /\ SourceDelivers(src)
       /\ srcErr' = src
       /\ nRead' = IF src = "nil" THEN nRead + 1 ELSE nRead
       /\ IF bo = NilOrder
          THEN \* the reader decodes the tag with a nil byte order
               /\ pc' = "ParsePanic"
               /\ hist' = [hist EXCEPT !.straddled = Straddles(e, src),
                                       !.elemReads = @ + 1, !.abort = "nilOrder"]
               /\ UNCHANGED <<bytesRead, cs, dataset, retVars, pending>>
          ELSE IF ReadFailed(res.err)
          THEN /\ pc' = "ParseErr"
               /\ retErr' = res.err
               /\ retDataset' = DatasetOnReadError(dataset)
               /\ hist' = [hist EXCEPT !.straddled = Straddles(e, src),
                                       !.elemReads = @ + 1,
                                       !.fail = Info(bytesRead, "none"),
                                       !.errInfo = ReaderErrInfo(bytesRead)]
               /\ UNCHANGED <<bytesRead, cs, dataset, pending>>
          ELSE IF SendsFrame(e, FrameChannelArg(frameChannel))
          THEN /\ pc' = "Send"
               /\ pending' = <<res.elem>>
               /\ bytesRead' = bytesRead + ElementSize(e)
               /\ hist' = [hist EXCEPT !.straddled = Straddles(e, src),
                                       !.elemReads = @ + 1,
                                       !.rawBody = Append(@, e)]
               /\ UNCHANGED <<cs, dataset, retVars>>
          ELSE IF res.elem.tag = SpecificCharacterSet /\ ValueType(res.elem) # Strings
          THEN \* MustGetStrings panics
               /\ pc' = "ParsePanic"
               /\ bytesRead' = bytesRead + ElementSize(e)
               /\ hist' = [hist EXCEPT !.straddled = Straddles(e, src),
                                       !.elemReads = @ + 1,
                                       !.abort = "mustGetStrings"]
               /\ UNCHANGED <<cs, dataset, retVars, pending>>
          ELSE IF /\ res.elem.tag = SpecificCharacterSet
                  /\ ParseSpecificCharacterSet(res.elem.val).err # "nil"
          THEN /\ pc' = "ParseErr"
               /\ retErr' = ParseSpecificCharacterSet(res.elem.val).err
               /\ retDataset' = DatasetOnCharsetError(dataset)
               /\ bytesRead' = bytesRead + ElementSize(e)
               /\ hist' = [hist EXCEPT !.straddled = Straddles(e, src),
                                       !.elemReads = @ + 1,
                                       !.fail = Info(bytesRead, res.elem.tag),
                                       !.errInfo = CharsetErrInfo]
               /\ UNCHANGED <<cs, dataset, pending>>
          ELSE /\ cs' = CodingSystemAfter(res.elem, cs)
               /\ dataset' = AppendElement(dataset, res.elem)
               /\ bytesRead' = bytesRead + ElementSize(e)
               /\ hist' = [hist EXCEPT !.straddled = Straddles(e, src),
                                       !.elemReads = @ + 1,
                             !.rawBody = Append(@, e),
                             !.csSets = IF res.elem.tag = SpecificCharacterSet
                                        THEN @ + 1 ELSE @]
               /\ UNCHANGED <<pc, retVars, pending>>
  /\ UNCHANGED <<dtVars, opts, frameChannel, chanBuf, chanCloses, received, chanClosed,
                 tsVars, limVars, metaElems>>

\* parse.go 149-170: inside readElement the frame of the PixelData element
\* is sent on the channel; the send blocks while the channel is full and
\* panics when the channel is closed.  Then readElement returns and the
\* element joins the dataset.
SendFrame ==
  /\ pc = "Send"
  /\ IF chanClosed
     THEN /\ pc' = "ParsePanic"
          /\ hist' = [hist EXCEPT !.abort = "sendClosed"]
          /\ UNCHANGED <<chanBuf, dataset, pending>>
     ELSE /\ Len(chanBuf) < ChanCap
          /\ chanBuf' = Append(chanBuf, pending[1].off)
          /\ dataset' = AppendElement(dataset, pending[1])
          /\ pending' = <<>>
          /\ pc' = "BodyLoop"
          /\ UNCHANGED hist
  /\ UNCHANGED <<dtVars, opts, frameChannel, chanCloses, received, chanClosed, tsVars,
                 cs, limVars, bytesRead, metaElems, retVars, srcErr, nRead>>

\* parse.go 174: the channel is closed when it is not nil.
ClosesChannel(fc) == fc # "nil"

\* parse.go 147, 174-177: the limit is exhausted; the channel is closed and
\* the dataset returned.  close panics on a channel that is closed already.
ParseDone ==
  /\ pc = "BodyLoop"
  /\ IsLimitExhausted
  /\ IF ClosesChannel(frameChannel) /\ chanClosed
     THEN /\ pc' = "ParsePanic"
          /\ hist' = [hist EXCEPT !.abort = "closeClosed"]
          /\ UNCHANGED <<chanCloses, chanClosed, retVars>>
     ELSE /\ pc' = "ParseOk"
          /\ chanCloses' = IF ClosesChannel(frameChannel)
                           THEN chanCloses + 1 ELSE chanCloses
          /\ chanClosed' = (chanClosed \/ ClosesChannel(frameChannel))
          /\ retDataset' = dataset
          /\ retErr' = "nil"
          /\ UNCHANGED hist
  /\ UNCHANGED <<dtVars, opts, frameChannel, chanBuf, received, pending, tsVars, cs,
                 limVars, bytesRead, metaElems, dataset, srcErr, nRead>>

\* The consumer of the frame channel takes the next frame.
Receive ==
  /\ chanBuf # <<>>
  /\ received' = Append(received, Head(chanBuf))
  /\ chanBuf' = Tail(chanBuf)
  /\ UNCHANGED <<dtVars, pc, opts, frameChannel, chanCloses, chanClosed, pending,
                 tsVars, cs, limVars, bytesRead, metaElems, dataset, retVars,
                 srcErr, nRead, hist>>

\* The consumer closes the frame channel while the parse has not finished.
ConsumerClose ==
  /\ frameChannel # "nil"
  /\ ~chanClosed
  /\ pc \in {"Ready", "BodyLoop", "Send"}
  /\ chanClosed' = TRUE
  /\ UNCHANGED <<dtVars, pc, opts, frameChannel, chanBuf, chanCloses, received,
                 pending, tsVars, cs, limVars, bytesRead, metaElems, dataset,
                 retVars, srcErr, nRead, hist>>

Next ==
  \/ NewParserEnter
  \/ ReadHeaderSkip
  \/ ReadHeaderMagic
  \/ ReadHeaderGroupLength
  \/ ReadHeaderElement
  \/ ReadHeaderDone
  \/ ParseTransferSyntax
  \/ ParseElement
  \/ SendFrame
  \/ ParseDone
  \/ Receive

Spec == Init /\ [][Next]_vars

\* The steps of the goroutine that runs NewParser and Parse.
ParserStep ==
  \/ NewParserEnter
  \/ ReadHeaderSkip
  \/ ReadHeaderMagic
  \/ ReadHeaderGroupLength
  \/ ReadHeaderElement
  \/ ReadHeaderDone
  \/ ParseTransferSyntax
  \/ ParseElement
  \/ SendFrame
  \/ ParseDone

\* The program with a scheduler that lets the parser run while it can take a
\* step, and a consumer that receives every frame offered on the channel.
SpecLive == Init /\ [][Next]_vars /\ WF_vars(ParserStep) /\ WF_vars(Receive)

\* The caller calls Parse once more on the parser whose Parse call has
\* returned, with or without an error.
ParseAgain ==
  /\ pc \in {"ParseOk", "ParseErr"}
  /\ hist.parseAgain < MaxParseAgain
  /\ pc' = "Ready"
  /\ hist' = [hist EXCEPT !.parseAgain = @ + 1]
  /\ UNCHANGED <<dtVars, opts, chanVars, tsVars, cs, limVars, bytesRead,
                 metaElems, dataset, retVars, srcErr, nRead>>

NextAgain == Next \/ ParseAgain

SpecAgain == Init /\ [][NextAgain]_vars

\* ------------------------------------------------------ dcmtime callers
\* A caller of pkg/dcmtime: either it holds a DT string for ParseDatetime,
\* or a Datetime value for DCM().  No parser is at work.
InitDT ==
  /\ pc = "none"
  /\ opts = FALSE
  /\ frameChannel = "nil"
  /\ chanBuf = <<>>
  /\ chanCloses = 0
  /\ received = <<>>
  /\ chanClosed = FALSE
  /\ pending = <<>>
  /\ bo = LittleEndian
  /\ implicit = FALSE
  /\ cs = "default"
  /\ limit = 0
  /\ bytesRead = 0
  /\ limitStack = <<>>
  /\ metaElems = <<>>
  /\ dataset = <<>>
  /\ retErr = "nil"
  /\ retDataset = <<>>
  /\ srcErr = "nil"
  /\ nRead = 0
  /\ hist = Hist0
  /\ dtParsed = NoResult
  /\ dtDCM = <<>>
  /\ \/ /\ dtPc = "ParseDatetime"
        /\ dtCase \in DTCases
        /\ dtValue = BuildDT(dtCase)
        /\ dtTime = ZeroDatetime
     \/ /\ dtPc = "DCM"
        /\ dtCase = NoCase
        /\ dtValue = <<>>
        /\ dtTime \in DatetimeInputs

\* datetime_test.go 280, 462: dcmtime.ParseDatetime is applied to the string.
CallParseDatetime ==
  /\ dtPc = "ParseDatetime"
  /\ dtParsed' = ParseDatetime(dtValue)
  /\ dtPc' = "parsed"
  /\ UNCHANGED <<parserVars, dtCase, dtValue, dtTime, dtDCM>>

\* The Datetime ParseDatetime returned is the next value DCM() is called on.
FormatParsed ==
  /\ dtPc = "parsed"
  /\ dtParsed.err = "nil"
  /\ dtTime' = dtParsed.dt
  /\ dtPc' = "DCM"
  /\ UNCHANGED <<parserVars, dtCase, dtValue, dtParsed, dtDCM>>

\* datetime_test.go 700-705: dt.DCM() is called on the Datetime value.
CallDCM ==
  /\ dtPc = "DCM"
  /\ dtDCM' = DCM(dtTime)
  /\ dtPc' = "formatted"
  /\ UNCHANGED <<parserVars, dtCase, dtValue, dtParsed, dtTime>>

NextDT ==
  \/ CallParseDatetime
  \/ FormatParsed
  \/ CallDCM

SpecDT == InitDT /\ [][NextDT]_vars

\* The same program with a consumer that may close the channel early.
NextClose == Next \/ ConsumerClose

SpecClose == Init /\ [][NextClose]_vars

\* ================================================================ claims
ParseReturned == pc \in {"ParseOk", "ParseErr"}
InParse == pc \in {"BodyLoop", "ParseOk", "ParseErr"}

\* The elements NewParser stored in the dataset, and those Parse appended.
MetaIdx == 1..hist.nMeta
BodyIdx == (hist.nMeta + 1)..Len(dataset)

\* The TransferSyntaxUID of the meta dataset resolves.
MetaTSResolved ==
  LET i == FindElementByTag(SubSeq(dataset, 1, hist.nMeta), TransferSyntaxUID) IN
  /\ i # 0
  /\ ParseTransferSyntaxUID(dataset[i].val[1]).err = "nil"

MetaTS ==
  ParseTransferSyntaxUID(
    dataset[FindElementByTag(SubSeq(dataset, 1, hist.nMeta), TransferSyntaxUID)].val[1])

\* C1: when Parse returns on a parser with a non-nil frame channel, with or
\* without an error, the parser has closed the channel exactly once.
C1_ChannelClosedOnceOnReturn ==
  (ParseReturned /\ frameChannel # "nil") => chanCloses = 1

\* C2: whenever Parse returns an error the dataset it returns is empty.
C2_ErrorReturnsEmptyDataset ==
  pc = "ParseErr" => retDataset = <<>>

\* C3: after a meta header with no TransferSyntaxUID, or with one that does
\* not resolve, the reader is little endian, implicit VR while Parse reads
\* the body elements.
C3_FallbackIsImplicitLittleEndian ==
  (pc = "BodyLoop" /\ ~opts /\ ~MetaTSResolved) => (bo = LittleEndian /\ implicit)

\* C4: when the TransferSyntaxUID of the meta dataset resolves, the reader
\* carries the resolved byte order and VR mode from before the first body
\* element until Parse returns, every body element was decoded under it, and
\* the transfer syntax was set exactly once.
C4_TransferSyntaxInstalledOnce ==
  (InParse /\ MetaTSResolved) =>
    /\ bo = MetaTS.bo
    /\ implicit = MetaTS.implicit
    /\ hist.tsSets = 1
    /\ \A i \in BodyIdx :
         dataset[i].bo = MetaTS.bo /\ dataset[i].implicit = MetaTS.implicit

\* C4 witness: a parse under a resolved big-endian syntax returned two body
\* elements.
C4_Witness ==
  /\ pc = "ParseOk"
  /\ MetaTSResolved
  /\ bo = BigEndian
  /\ Len(dataset) >= hist.nMeta + 2

\* C5: NewParser without the no-header option returns a parser only if the
\* first element has tag FileMetaInformationGroupLength and VR UL.
C5_GroupLengthMustBeUL ==
  (pc = "Ready" /\ ~opts) =>
    (dataset[1].tag = FileMetaInformationGroupLength /\ dataset[1].vr = "UL")

\* C6: when NewParser succeeds with group length L, the meta elements after
\* the group-length element take exactly L bytes and the body starts at
\* offset 128 + 4 + size(group-length element) + L.
C6_MetaConsumesExactlyL ==
  (pc = "Ready" /\ ~opts) =>
    /\ hist.metaEnd - hist.metaStart = hist.metaLen
    /\ bytesRead = PreambleLen + MagicLen + dataset[1].size + hist.metaLen

\* C7: when the 4 bytes after the preamble are not the magic word, NewParser
\* has returned the bad-magic error and no parser, there is no dataset, no
\* element was read and no limit was pushed.
C7_BadMagicRejected ==
  (hist.magic \notin {"none", magicWord}) =>
    /\ pc = "NewParserErr"
    /\ retErr = ErrorMagicWord
    /\ dataset = <<>>
    /\ retDataset = <<>>
    /\ hist.elemReads = 0
    /\ hist.pushes = 0
    /\ limitStack = <<>>

\* C7 witness: DICX was read and NewParser has returned.
C7_Witness ==
  hist.magic = "DICX" /\ pc = "NewParserErr" /\ bytesRead = PreambleLen

\* C8: an error of the byte source, at any read step, is the error NewParser
\* or Parse returns.
C8_SourceErrorReachesCaller ==
  srcErr # "nil" => retErr = srcErr

\* C9: the dataset of a successful parse holds the elements in file order
\* with none missing: the group-length element first (at offset 132), each
\* element starting where the one before ended, the last one ending where
\* the reader stands; the meta elements come before the body elements.
C9_DatasetInFileOrder ==
  pc = "ParseOk" =>
    /\ retDataset = dataset
    /\ ~opts => /\ retDataset[1].tag = FileMetaInformationGroupLength
                /\ retDataset[1].off = PreambleLen + MagicLen
                /\ hist.nMeta >= 1
    /\ (opts /\ retDataset # <<>>) => retDataset[1].off = 0
    /\ \A i \in 1..(Len(retDataset) - 1) :
         retDataset[i + 1].off = retDataset[i].off + retDataset[i].size
    /\ retDataset # <<>> =>
         retDataset[Len(retDataset)].off + retDataset[Len(retDataset)].size = bytesRead
    /\ \A i \in MetaIdx : retDataset[i].off < hist.metaEnd
    /\ \A i \in BodyIdx : retDataset[i].off >= hist.metaEnd

\* C9 witness: a successful parse with a meta element after the group length
\* and two body elements of the same tag.
C9_Witness ==
  /\ pc = "ParseOk"
  /\ hist.nMeta = 2
  /\ Len(retDataset) = 4
  /\ retDataset[3].tag = PatientName
  /\ retDataset[4].tag = PatientName

\* The decoder of the most recent SpecificCharacterSet element among the
\* body elements before index i, the initial decoder if there is none.
RECURSIVE LastCharset(_)
LastCharset(i) ==
  IF i <= hist.nMeta + 1 THEN "default"
  ELSE IF dataset[i - 1].tag = SpecificCharacterSet
       THEN ParseSpecificCharacterSet(dataset[i - 1].val).cs
       ELSE LastCharset(i - 1)

\* C10: every body element was decoded with the decoder of the most recent
\* SpecificCharacterSet body element before it (the initial decoder if there
\* is none), every meta element with the initial decoder, and the reader
\* carries the decoder for the next element.
C10_DecoderOfMostRecentCharset ==
  /\ \A i \in 1..Len(metaElems) : metaElems[i].cs = "default"
  /\ pc \in {"NewParser", "Skip", "Magic", "GroupLength", "MetaLoop", "Ready"} => cs = "default"
  /\ InParse =>
       /\ \A i \in MetaIdx : dataset[i].cs = "default"
       /\ \A i \in BodyIdx : dataset[i].cs = LastCharset(i)
       /\ cs = LastCharset(Len(dataset) + 1)

\* C10 witness: two SpecificCharacterSet body elements with different
\* decoders were read, then a text element.
C10_Witness ==
  /\ pc = "ParseOk"
  /\ Len(dataset) = hist.nMeta + 3
  /\ dataset[hist.nMeta + 1].val = <<"ISO_IR 100">>
  /\ dataset[hist.nMeta + 2].val = <<"ISO_IR 192">>
  /\ dataset[hist.nMeta + 2].cs = "ISO_IR 100"
  /\ dataset[hist.nMeta + 3].tag = PatientName
  /\ dataset[hist.nMeta + 3].cs = "ISO_IR 192"
\* The consumer, not the parser, has closed the channel.
ConsumerClosed == chanClosed /\ chanCloses = 0

\* C11: when the consumer has closed the frame channel before the parse
\* finished, Parse does not abort in the send of a frame nor in its own close
\* of the channel, and it does not return success: it returns an error.
C11_ConsumerCloseIsAnError ==
  ConsumerClosed =>
    /\ hist.abort \notin {"sendClosed", "closeClosed"}
    /\ pc # "ParseOk"

\* C13: with AssumeNoHeaderAndOffset NewParser returns a parser without an
\* error, having read nothing and pushed no limit, with an empty dataset, so
\* that the first element Parse reads starts at byte 0.
C13_NoHeaderLeavesReaderUntouched ==
  opts =>
    /\ pc \notin {"Skip", "Magic", "GroupLength", "MetaLoop", "NewParserErr",
                  "NewParserPanic"}
    /\ retErr \notin {ErrorMagicWord, ErrorMetaElementGroupLength}
    /\ hist.pushes = 0 /\ hist.pops = 0 /\ hist.magic = "none"
    /\ limitStack = <<>>
    /\ hist.nMeta = 0
    /\ (pc = "Ready" => bytesRead = 0 /\ dataset = <<>> /\ hist.elemReads = 0)
    /\ (hist.elemReads = 0 => bytesRead = 0)
    /\ (dataset # <<>> => dataset[1].off = 0)

C13_Witness ==
  /\ opts
  /\ pc = "BodyLoop"
  /\ Len(dataset) = 2
  /\ dataset[1].off = 0

\* Frames handed to the channel so far, in the order they were sent.
FramesSent == received \o chanBuf

\* Offsets of the PixelData elements among the elements Parse appended.
RECURSIVE PixelOffsets(_)
PixelOffsets(ds) ==
  IF ds = <<>> THEN <<>>
  ELSE IF Head(ds).tag = PixelData
  THEN <<Head(ds).off>> \o PixelOffsets(Tail(ds))
  ELSE PixelOffsets(Tail(ds))

\* C14: within one Parse call the frames are sent in the order in which their
\* PixelData elements are read, every one of them before the parser closes
\* the channel and none after; the close comes after the last element read
\* has returned and before Parse returns the dataset.
C14_FramesThenClose ==
  /\ [](/\ FramesSent =
             IF frameChannel # "nil" /\ pc \in {"BodyLoop", "Send", "ParseOk",
                                                "ParseErr", "ParsePanic"}
             THEN PixelOffsets(SubSeq(dataset, hist.nMeta + 1, Len(dataset)))
             ELSE <<>>
        /\ \A i, j \in 1..Len(FramesSent) : i < j => FramesSent[i] < FramesSent[j]
        /\ chanCloses <= 1
        /\ chanCloses = 1 =>
             /\ pc = "ParseOk"
             /\ IsLimitExhausted
             /\ pending = <<>>
             /\ retDataset = dataset
        /\ (pc = "ParseOk" /\ frameChannel # "nil") => chanCloses = 1)
  /\ [][chanCloses >= 1 => FramesSent' = FramesSent]_vars

C14_Witness ==
  /\ pc = "ParseOk"
  /\ chanCloses = 1
  /\ Len(FramesSent) = 2
  /\ received # <<>>

\* C20: every PopLimit the meta header parser makes finds the pushed scope of
\* L bytes fully consumed, also on the path where reading a meta element
\* fails.
C20_PopLimitOnDrainedScope == hist.undrainedPops = 0

\* C16: every error NewParser or Parse returns carries the file offset at
\* which the failure happened and, when the tag of the element being decoded
\* had been read, that tag.
C16_ErrorsCarryOffsetAndTag ==
  pc \in {"NewParserErr", "ParseErr"} =>
    /\ hist.errInfo.off = hist.fail.off
    /\ hist.fail.tag # "none" => hist.errInfo.tag = hist.fail.tag

\* The elements Parse appended, with offsets counted from the first byte of
\* the body.
BodyElements ==
  [i \in 1..(Len(dataset) - hist.nMeta) |->
     [dataset[hist.nMeta + i] EXCEPT !.off = @ - hist.metaEnd]]

\* What the loop of Parse (parse.go 147-172) makes of the body raw, read from
\* offset off by a reader in the given mode.
RECURSIVE ParseBody(_, _, _, _, _)
ParseBody(raw, order, isImplicit, decoder, off) ==
  IF raw = <<>> THEN <<>>
  ELSE LET elem == DecodeIn(Head(raw), order, isImplicit, decoder, off) IN
       <<elem>> \o ParseBody(Tail(raw), order, isImplicit,
                             CodingSystemAfter(elem, decoder), off + elem.size)

\* The elements a parser made with AssumeNoHeaderAndOffset returns for the
\* raw dataset raw: no transfer syntax is installed (parse.go 144-146), the
\* reader is as NewReader made it (parse.go 45).
NoHeaderParse(raw) == ParseBody(raw, LittleEndian, FALSE, "default", 0)

C15_ParseEventuallyReturns ==
  /\ (pc = "BodyLoop") ~> ParseReturned
  /\ [][(pc = "Send" /\ Len(chanBuf) = ChanCap /\ pc' # "Send") =>
          received' # received]_vars
  /\ [][pc = "Send" =>
          /\ bytesRead' = bytesRead
          /\ hist'.elemReads = hist.elemReads
          /\ pending' = pending \/ FramesSent' = Append(FramesSent, pending[1].off)]_vars

\* ------------------------------------------------------- dcmtime claims
\* The string built for a case is in its entirety a DT value.
CaseIsDT(c) ==
  /\ c.defect = "none"
  /\ c.frac \in 0..6
  /\ c.off \in {"none", "+0102", "-0102"}
  /\ c.wrap = "none"

\* C17: ParseDatetime returns ErrParseDT for every string that is not in its
\* entirety a DT value: text before or after a value (also behind a space or
\* a line break), an offset other than a sign and four digits, a short year,
\* a component of one digit, a seventh fractional digit, a '.' without digit.
C17_NotADatetimeIsAnError ==
  (dtPc = "parsed" /\ ~CaseIsDT(dtCase)) => dtParsed.err = ErrParseDT

C17_Witness ==
  /\ dtPc = "parsed"
  /\ dtCase = [level |-> 5, defect |-> "none", frac |-> 6, off |-> "+0102",
               wrap |-> "headLineBreak"]
  /\ dtParsed.err = ErrParseDT

\* datetime_test.go 17-275: the nanoseconds expected for 1..6 fractional
\* digits of .456789, and the zone expected for each offset.
ExpectedNanos(k) == (456789 \div Pow10(6 - k)) * Pow10(9 - k)
ExpectedOffset(o) ==
  IF o = "+0102" THEN 3720 ELSE IF o = "-0102" THEN 0 - 3720 ELSE 0

\* C18: for every DT string ParseDatetime returns the precision of the finest
\* component present, with or without offset; the components present have
\* their values, the missing ones their minimum (month 1, day 1, zero time),
\* the fractional digits count as a decimal fraction of a second, and the
\* zone is the offset given, UTC without one.
C18_PrecisionOfFinestComponent ==
  (dtPc = "parsed" /\ CaseIsDT(dtCase)) =>
    /\ dtParsed.err = "nil"
    /\ dtParsed.dt =
         Datetime(1010,
                  IF dtCase.level >= 1 THEN 2 ELSE 1,
                  IF dtCase.level >= 2 THEN 3 ELSE 1,
                  IF dtCase.level >= 3 THEN 4 ELSE 0,
                  IF dtCase.level >= 4 THEN 5 ELSE 0,
                  IF dtCase.level >= 5 THEN 6 ELSE 0,
                  IF dtCase.frac = 0 THEN 0 ELSE ExpectedNanos(dtCase.frac),
                  ExpectedOffset(dtCase.off),
                  IF dtCase.frac = 0 THEN PrecisionLevels[dtCase.level + 1]
                  ELSE PrecisionLevels[6 + dtCase.frac],
                  dtCase.off = "none")

C18_Witness ==
  /\ dtPc = "parsed"
  /\ dtCase = [level |-> 5, defect |-> "none", frac |-> 2, off |-> "-0102",
               wrap |-> "none"]
  /\ dtParsed.dt.Precision = "PrecisionMS2"
  /\ dtParsed.dt.nanos = 450000000

\* Digits DCM() writes before the offset at each precision rank.
DCMLength(r) == IF r <= 6 THEN 2 + 2 * r ELSE 9 + r

\* C19: DCM() writes the components down to the value's Precision and no
\* further, the fractional second cut (not rounded) to the digits of that
\* precision with its leading zeros, and then the offset as a sign and four
\* digits exactly when NoOffset is false.  Read back, the string gives the
\* components down to Precision, the cut fraction, and the offset.
C19_DCMWritesDownToPrecision ==
  dtPc = "formatted" =>
    LET r == PrecisionRank(dtTime.Precision)
        back == ParseDatetime(dtDCM)
        unit == Pow10(15 - r)
    IN
    /\ Len(dtDCM) = DCMLength(r) + (IF dtTime.NoOffset THEN 0 ELSE 5)
    /\ back.err = "nil"
    /\ back.dt =
         Datetime(dtTime.year,
                  IF r >= 2 THEN dtTime.month ELSE 1,
                  IF r >= 3 THEN dtTime.day ELSE 1,
                  IF r >= 4 THEN dtTime.hour ELSE 0,
                  IF r >= 5 THEN dtTime.minute ELSE 0,
                  IF r >= 6 THEN dtTime.second ELSE 0,
                  IF r >= 7 THEN (dtTime.nanos \div unit) * unit ELSE 0,
                  IF dtTime.NoOffset THEN 0 ELSE dtTime.offset,
                  dtTime.Precision,
                  dtTime.NoOffset)

C19_Witness ==
  /\ dtPc = "formatted"
  /\ dtTime = Datetime(1010, 2, 3, 4, 5, 6, 456789999, 0 - 3720,
                       "PrecisionMS3", FALSE)
  /\ dtDCM = <<"1", "0", "1", "0", "0", "2", "0", "3", "0", "4", "0", "5",
               "0", "6", ".", "4", "5", "6", "-", "0", "1", "0", "2">>

\* C24: NewParser ends by returning a parser or an error and never aborts,
\* also when the group-length element holds an empty list of integers.
C24_NewParserNeverAborts == pc # "NewParserPanic"

\* readHeader has returned (or was never called).
AfterReadHeader ==
  pc \in {"Ready", "NewParserErr", "BodyLoop", "Send", "ParseOk", "ParseErr",
          "ParsePanic"}

\* C22: on every return of readHeader, with or without an error, the limit
\* stack is as deep as on entry: PopLimit has run once exactly when PushLimit
\* succeeded.  The loop of Parse therefore runs under the bytesToRead limit.
C22_PushPopBalanced ==
  /\ hist.pushes <= 1
  /\ hist.pops <= hist.pushes
  /\ AfterReadHeader =>
       /\ limitStack = <<>>
       /\ hist.pops = hist.pushes
       /\ limit = hist.bytesToRead
  /\ pc = "MetaLoop" => (hist.pushes = 1 /\ hist.pops = 0 /\ Len(limitStack) = 1)

C22_Witness ==
  /\ pc = "BodyLoop"
  /\ hist.pushes = 1
  /\ hist.pops = 1
  /\ hist.metaLen > 0
  /\ Len(dataset) > hist.nMeta
  /\ limit = hist.bytesToRead

C21_NoSecondCloseByParser ==
  /\ chanCloses <= 1
  /\ ~(hist.abort = "closeClosed" /\ chanCloses >= 1)

====
